---- MODULE Spec2Model ----
(***************************************************************************)
(* A model of the frame redaction pipeline of the repository:              *)
(*   flask_api.py               UltraFastNSFWProcessor (cache, rectifier,  *)
(*                              selector, compositor, orchestrator)        *)
(*   realtime_video_processor.py VideoStreamProcessor.process_single_frame *)
(*   test_pytorch_model.py      labels, apply_fast_realtime_blur           *)
(*                                                                         *)
(* Representation.                                                         *)
(*   - A frame is a record [w, h, img, px]: its width and height, the      *)
(*     identity of its original content, and the set px of pixels <<x,y>>  *)
(*     that a compositor has overwritten with blurred data.  A pixel not   *)
(*     in px still holds the caller's original value.                      *)
(*   - A detector coordinate is a float in the code; it is modelled as an  *)
(*     integer number of half pixels.                                      *)
(*   - A resize factor, a confidence and a threshold are modelled in       *)
(*     hundredths (50 is 0.5).  For the factors enumerated here the exact  *)
(*     quotient t * 100 / rf truncates to the same integer as the code's   *)
(*     float product t * (1.0 / resize_factor).                            *)
(*   - Time is modelled in units of 10 ms (cache_ttl 0.1 s is 10).         *)
(*   - The detector is outside the repository: what it returns for a frame *)
(*     is an input, a sequence of boxes with class id and confidence.      *)
(*   - The statistics that the processors keep (processing_times,          *)
(*     request_count) influence no result and are left out.                *)
(***************************************************************************)
EXTENDS Integers, Sequences, FiniteSets, TLC

(***************************************************************************)
(* Bounds of the model.                                                    *)
(***************************************************************************)
\* largest detector-space pixel coordinate enumerated
MaxCoord == 4
\* how far below zero a detector-space pixel coordinate may lie
MaxUnder == 1
\* largest frame side enumerated for the rectifier
MaxSide == 12
\* the clock stops at MaxTime (in units of 10 ms)
MaxTime == 15
\* the clock is read in steps of ClockStep units
ClockStep == 5
\* side of the square frames submitted to the cached processor
FrameSide == 8
\* number of distinct frame contents submitted to the cached processor
NumImages == 2

\* clock steps taken while concurrent requests are in flight
WorkerTicks == 1
\* largest width and height of a region whose blur kernel is sized
MaxRegionSide == 68
\* most frames in a video file
MaxFrames == 3

Max(a, b) == IF a >= b THEN a ELSE b

Min(a, b) == IF a <= b THEN a ELSE b

\* Python's int() of the rational n/d (d > 0): truncation toward zero.
TruncDiv(n, d) == IF n >= 0 THEN n \div d ELSE -((-n) \div d)

(***************************************************************************)
(* Label registry.                                                         *)
(***************************************************************************)
\* test_pytorch_model.__labels, as returned by get_labels(); class id c is
\* entry c + 1 of the sequence.
get_labels ==
    << "FEMALE_GENITALIA_COVERED", "FACE_FEMALE", "BUTTOCKS_EXPOSED",
       "FEMALE_BREAST_EXPOSED", "FEMALE_GENITALIA_EXPOSED",
       "MALE_BREAST_EXPOSED", "ANUS_EXPOSED", "FEET_EXPOSED",
       "BELLY_COVERED", "FEET_COVERED", "ARMPITS_COVERED",
       "ARMPITS_EXPOSED", "FACE_MALE", "BELLY_EXPOSED",
       "MALE_GENITALIA_EXPOSED", "ANUS_COVERED", "FEMALE_BREAST_COVERED",
       "BUTTOCKS_COVERED" >>

\* streamlit_app.LABELS
LABELS ==
    << "FEMALE_GENITALIA_COVERED", "FACE_FEMALE", "BUTTOCKS_EXPOSED",
       "FEMALE_BREAST_EXPOSED", "FEMALE_GENITALIA_EXPOSED",
       "MALE_BREAST_EXPOSED", "ANUS_EXPOSED", "FEET_EXPOSED",
       "BELLY_COVERED", "FEET_COVERED", "ARMPITS_COVERED",
       "ARMPITS_EXPOSED", "FACE_MALE", "BELLY_EXPOSED",
       "MALE_GENITALIA_EXPOSED", "ANUS_COVERED", "FEMALE_BREAST_COVERED",
       "BUTTOCKS_COVERED" >>

\* the labels that _extract_blur_regions uses when the import of
\* test_pytorch_model fails ("placeholder labels")
placeholder_labels ==
    << "BUTTOCKS_EXPOSED", "FEMALE_BREAST_EXPOSED", "FEMALE_GENITALIA_EXPOSED",
       "MALE_GENITALIA_EXPOSED", "ANUS_EXPOSED" >>

\* UltraFastNSFWProcessor.nsfw_classes and VideoStreamProcessor.nudity_classes
nsfw_classes ==
    { "BUTTOCKS_EXPOSED", "FEMALE_BREAST_EXPOSED", "FEMALE_GENITALIA_EXPOSED",
      "MALE_GENITALIA_EXPOSED", "ANUS_EXPOSED" }

(***************************************************************************)
(* Coordinate rectifier.                                                   *)
(***************************************************************************)
\* map(int, coords): a float coordinate, given in half pixels, to int
IntCoord(c) == TruncDiv(c, 2)

\* int(coord * scale) with scale = 1.0 / resize_factor, applied only when
\* resize_factor != 1.0; rf is the resize factor in hundredths
ScaleBack(t, rf) == IF rf # 100 THEN TruncDiv(t * 100, rf) ELSE t

\* x1, y1, x2, y2 = map(int, coords), then scaled back to the original size
ScaleBox(d, rf) ==
    [ x1 |-> ScaleBack(IntCoord(d.x1), rf), y1 |-> ScaleBack(IntCoord(d.y1), rf),
      x2 |-> ScaleBack(IntCoord(d.x2), rf), y2 |-> ScaleBack(IntCoord(d.y2), rf) ]

\* a clamp that bounds each coordinate on its own and does not order them
ClampBoxUnordered(b, W, H) ==
    [ x1 |-> Max(0, Min(b.x1, W)), y1 |-> Max(0, Min(b.y1, H)),
      x2 |-> Max(0, Min(b.x2, W)), y2 |-> Max(0, Min(b.y2, H)) ]

\* "Ensure coordinates are within bounds": b is a box, W x H the frame
ClampBox(b, W, H) ==
    LET x1 == Max(0, Min(b.x1, W))
        y1 == Max(0, Min(b.y1, H))
    IN  [ x1 |-> x1, y1 |-> y1,
          x2 |-> Max(x1, Min(b.x2, W)), y2 |-> Max(y1, Min(b.y2, H)) ]

(***************************************************************************)
(* Region selection.  A detection is a record [x1, y1, x2, y2, conf, cls]  *)
(* as the detector returns it; a region is [x1, y1, x2, y2, class, conf].  *)
(***************************************************************************)
Region(b, d, labels) ==
    [ x1 |-> b.x1, y1 |-> b.y1, x2 |-> b.x2, y2 |-> b.y2,
      class |-> labels[d.cls + 1], conf |-> d.conf ]

\* flask_api: cls < len(labels) and class_name in self.nsfw_classes
FlaskSelects(d, labels) ==
    d.cls < Len(labels) /\ labels[d.cls + 1] \in nsfw_classes

\* UltraFastNSFWProcessor._extract_blur_regions with the label list in use
ExtractWith(labels, results, W, H, rf) ==
    LET sel == SelectSeq(results, LAMBDA d : FlaskSelects(d, labels))
    IN  [ i \in 1..Len(sel) |->
            Region(ClampBox(ScaleBox(sel[i], rf), W, H), sel[i], labels) ]

extract_blur_regions(results, W, H, rf) ==
    ExtractWith(get_labels, results, W, H, rf)

\* the names that module test_pytorch_model defines
test_pytorch_model_names ==
    { "__labels", "get_labels", "test_pytorch_model", "try_torch_direct",
      "create_blurred_image", "apply_optimized_blur", "create_smooth_mask",
      "apply_multi_stage_blur", "create_realtime_blur_processor",
      "apply_fast_realtime_blur", "test_realtime_performance",
      "create_visualization_with_boxes" }

\* the name that "from test_pytorch_model import __labels" asks for when the
\* statement stands in a method of class VideoStreamProcessor: Python mangles
\* a name with two leading underscores inside a class body
MangledLabelsName == "_VideoStreamProcessor__labels"

\* the import statement in the box loop of process_single_frame raises
\* ImportError when the module does not define the name it asks for
ImportLabelsRaises == MangledLabelsName \notin test_pytorch_model_names

\* realtime_video_processor: class_name in self.nudity_classes and
\* conf > confidence_threshold
RealtimeSelects(d, thr) ==
    /\ d.cls < Len(get_labels)
    /\ get_labels[d.cls + 1] \in nsfw_classes
    /\ d.conf > thr

\* the region loop of VideoStreamProcessor.process_single_frame
single_frame_regions(results, thr, rf) ==
    LET sel == SelectSeq(results, LAMBDA d : RealtimeSelects(d, thr))
    IN  [ i \in 1..Len(sel) |-> Region(ScaleBox(sel[i], rf), sel[i], get_labels) ]

(***************************************************************************)
(* Redaction compositors.                                                  *)
(***************************************************************************)
\* a NumPy slice bound i on an axis of length n (a negative bound counts
\* from the end, any bound is clipped to the axis)
SliceIdx(i, n) == IF i < 0 THEN Max(i + n, 0) ELSE Min(i, n)

\* the pixels of frame[y1:y2, x1:x2]
Roi(frame, x1, y1, x2, y2) ==
    { p \in (SliceIdx(x1, frame.w)..(SliceIdx(x2, frame.w) - 1))
             \X (SliceIdx(y1, frame.h)..(SliceIdx(y2, frame.h) - 1)) : TRUE }

\* roi.shape[1] and roi.shape[0]
RoiW(frame, x1, x2) == Max(0, SliceIdx(x2, frame.w) - SliceIdx(x1, frame.w))

RoiH(frame, y1, y2) == Max(0, SliceIdx(y2, frame.h) - SliceIdx(y1, frame.h))

\* a write-back whose column bound is inclusive
WriteRoiInclusive(frame, x1, y1, x2, y2) ==
    [frame EXCEPT !.px = @ \cup Roi(frame, x1, y1, x2 + 1, y2)]

\* frame[y1:y2, x1:x2] = blurred
WriteRoi(frame, x1, y1, x2, y2) ==
    [frame EXCEPT !.px = @ \cup Roi(frame, x1, y1, x2, y2)]

\* cv2.resize(src, (dw, dh)) raises when the destination size is empty
ResizeRaises(dw, dh) == dw <= 0 \/ dh <= 0

\* one iteration of the loop of _apply_ultra_fast_blur; the result is the
\* frame and whether the iteration raised
BlurOneUltraFast(frame, r) ==
    IF r.x2 > r.x1 /\ r.y2 > r.y1
    THEN LET w == RoiW(frame, r.x1, r.x2)
             h == RoiH(frame, r.y1, r.y2)
             pixel_size == Max(2, Min(w \div 12, h \div 12))
         IN  IF w * h > 0
             THEN IF pixel_size > 1 /\ ResizeRaises(w \div pixel_size, h \div pixel_size)
                  THEN [frame |-> frame, raised |-> TRUE]
                  ELSE [frame |-> WriteRoi(frame, r.x1, r.y1, r.x2, r.y2),
                        raised |-> FALSE]
             ELSE [frame |-> frame, raised |-> FALSE]
    ELSE [frame |-> frame, raised |-> FALSE]

\* UltraFastNSFWProcessor._apply_ultra_fast_blur; failAt = k > 0 makes the
\* library call of the k-th iteration raise, failAt = 0 none
RECURSIVE apply_ultra_fast_blur(_, _, _)
apply_ultra_fast_blur(frame, blur_regions, failAt) ==
    IF blur_regions = << >>
    THEN [frame |-> frame, raised |-> FALSE]
    ELSE IF failAt = 1
         THEN [frame |-> frame, raised |-> TRUE]
         ELSE LET one == BlurOneUltraFast(frame, Head(blur_regions))
              IN  IF one.raised
                  THEN one
                  ELSE apply_ultra_fast_blur(one.frame, Tail(blur_regions),
                                             Max(0, failAt - 1))

\* one iteration of the loop of VideoStreamProcessor.apply_fast_blur
BlurOneFast(frame, r) ==
    LET b == ClampBox(r, frame.w, frame.h)
        w == RoiW(frame, b.x1, b.x2)
        h == RoiH(frame, b.y1, b.y2)
        pixel_size == Max(4, Min(w \div 8, h \div 8))
    IN  IF b.x2 > b.x1 /\ b.y2 > b.y1 /\ w * h > 0 /\ w > pixel_size /\ h > pixel_size
        THEN WriteRoi(frame, b.x1, b.y1, b.x2, b.y2)
        ELSE frame

\* VideoStreamProcessor.apply_fast_blur
RECURSIVE apply_fast_blur(_, _)
apply_fast_blur(frame, blur_regions) ==
    IF blur_regions = << >>
    THEN frame
    ELSE apply_fast_blur(BlurOneFast(frame, Head(blur_regions)), Tail(blur_regions))

\* the padded box of apply_fast_realtime_blur (padding = 3)
PadBox(frame, r) ==
    [ x1 |-> Max(0, r.x1 - 3), y1 |-> Max(0, r.y1 - 3),
      x2 |-> Min(frame.w, r.x2 + 3), y2 |-> Min(frame.h, r.y2 + 3) ]

\* one iteration of the loop of apply_fast_realtime_blur (pixel_size = 6)
BlurOneRealtime(frame, r) ==
    LET b == PadBox(frame, r)
        w == RoiW(frame, b.x1, b.x2)
        h == RoiH(frame, b.y1, b.y2)
    IN  IF w * h > 0 /\ w > 6 /\ h > 6
        THEN WriteRoi(frame, b.x1, b.y1, b.x2, b.y2)
        ELSE frame

\* test_pytorch_model.apply_fast_realtime_blur
RECURSIVE apply_fast_realtime_blur(_, _)
apply_fast_realtime_blur(frame, blur_regions) ==
    IF blur_regions = << >>
    THEN frame
    ELSE apply_fast_realtime_blur(BlurOneRealtime(frame, Head(blur_regions)),
                                  Tail(blur_regions))

(***************************************************************************)
(* Temporal result cache and orchestrator of UltraFastNSFWProcessor.       *)
(*                                                                         *)
(* The cache is a function from the frame ids present to entries           *)
(* [result, detections, timestamp].  A frame id is a string; "None" stands *)
(* for the argument left out, "" for an id that Python treats as false and *)
(* "[1]" for an id that cannot be a dictionary key (a JSON list).          *)
(* An optional argument is << >> when left out and << v >> when given.     *)
(*                                                                         *)
(* env is what the surroundings decide during one call:                    *)
(*   t0, t1, t2  the clock read by the lookup, the store and the sweep     *)
(*   results     what the detector returns when it is invoked              *)
(*   fail        the step that raises, or "none"                            *)
(*   failAt      for fail = "blur", the region whose compositing raises    *)
(***************************************************************************)
\* a test "frame_id is not None" in place of the truth value
TruthyNotNone(frame_id) == frame_id # "None"

\* Python's truth value of a frame_id
Truthy(frame_id) == frame_id \notin { "None", "" }

\* whether frame_id can be looked up in a dict (else the lookup raises)
Hashable(frame_id) == frame_id # "[1]"

\* a lookup that lets an entry go stale at half its time-to-live
IsFreshHalfTtl(entry, t, ttl) == 2 * (t - entry.timestamp) < ttl

\* a lookup that still serves an entry whose age equals the time-to-live
IsFreshInclusive(entry, t, ttl) == t - entry.timestamp <= ttl

\* time.time() - cache_entry['timestamp'] < self.cache_ttl
IsFresh(entry, t, ttl) == t - entry.timestamp < ttl

\* the condition under which _clean_cache deletes an entry
IsExpired(entry, t, ttl) == t - entry.timestamp > ttl

\* UltraFastNSFWProcessor._clean_cache at clock t
clean_cache(cache, t, ttl) ==
    [ k \in { j \in DOMAIN cache : ~IsExpired(cache[j], t, ttl) } |-> cache[k] ]

\* a store that keeps the entry an id already has (dict.setdefault)
StoreEntryKeep(cache, frame_id, frame, detections, t) ==
    [ k \in DOMAIN cache \cup { frame_id } |->
        IF k \in DOMAIN cache
        THEN cache[k]
        ELSE [ result |-> frame, detections |-> detections, timestamp |-> t ] ]

\* self.frame_cache[frame_id] = {...}
StoreEntry(cache, frame_id, frame, detections, t) ==
    [ k \in DOMAIN cache \cup { frame_id } |->
        IF k = frame_id
        THEN [ result |-> frame, detections |-> detections, timestamp |-> t ]
        ELSE cache[k] ]

\* a conversion that puts each new detection at the front of the list
ToDetectionsPrepend(blur_regions) ==
    [ i \in 1..Len(blur_regions) |->
        LET r == blur_regions[Len(blur_regions) + 1 - i]
        IN  [ class |-> r.class, confidence |-> r.conf,
              bbox |-> << r.x1, r.y1, r.x2, r.y2 >> ] ]

\* "Convert blur regions to detection format"
ToDetections(blur_regions) ==
    [ i \in 1..Len(blur_regions) |->
        [ class |-> blur_regions[i].class,
          confidence |-> blur_regions[i].conf,
          bbox |-> << blur_regions[i].x1, blur_regions[i].y1,
                     blur_regions[i].x2, blur_regions[i].y2 >> ] ]

\* an except branch that logs the error and raises it again
OnErrorReraise(frame, cache, invoked, stored) ==
    [ frame |-> frame, detections |-> << >>, cache |-> cache, hit |-> FALSE,
      invoked |-> invoked, raised |-> TRUE, stored |-> stored,
      propagated |-> TRUE ]

\* the except branch: return frame, []
OnError(frame, cache, invoked, stored) ==
    [ frame |-> frame, detections |-> << >>, cache |-> cache, hit |-> FALSE,
      invoked |-> invoked, raised |-> TRUE, stored |-> stored,
      propagated |-> FALSE ]

\* conf_threshold = confidence_threshold if given, else the attribute
ActiveThreshold(self, confidence_threshold) ==
    IF confidence_threshold # << >> THEN confidence_threshold[1]
    ELSE self.confidence_threshold

\* resize_factor = 0.3 if fast_mode else self.resize_factor
ActiveResize(self, fast_mode) == IF fast_mode THEN 30 ELSE self.resize_factor

\* frame_resized: the copy of the frame that is handed to the detector
frame_resized(frame, rf) ==
    IF rf # 100
    THEN [frame EXCEPT !.w = (frame.w * rf) \div 100, !.h = (frame.h * rf) \div 100]
    ELSE frame

\* a compositor call on the copy made for the detector
CompositeOnResized(frame, resized) == resized

\* the array that process_frame hands to _apply_ultra_fast_blur: frame, not
\* frame_resized
CompositeOn(frame, resized) == frame

\* the cache store and sweep at the end of process_frame, and its return
StoreAndReturn(self, frame, frame_id, regions, env) ==
    LET detections == ToDetections(regions)
        stored == StoreEntry(self.frame_cache, frame_id, frame, detections, env.t1)
    IN  IF ~Truthy(frame_id)
        THEN [ frame |-> frame, detections |-> detections,
               cache |-> self.frame_cache, hit |-> FALSE, invoked |-> TRUE,
               raised |-> FALSE, stored |-> FALSE, propagated |-> FALSE ]
        ELSE IF env.fail = "store"
        THEN OnError(frame, self.frame_cache, TRUE, FALSE)
        ELSE IF env.fail = "sweep"
        THEN OnError(frame, stored, TRUE, TRUE)
        ELSE [ frame |-> frame, detections |-> detections,
               cache |-> clean_cache(stored, env.t2, self.cache_ttl),
               hit |-> FALSE, invoked |-> TRUE, raised |-> FALSE,
               stored |-> TRUE, propagated |-> FALSE ]

\* process_frame from the inference on, on a cache miss
Detect(self, frame, frame_id, confidence_threshold, fast_mode, env) ==
    LET rf == ActiveResize(self, fast_mode)
        regions == extract_blur_regions(env.results, frame.w, frame.h, rf)
        blurred == apply_ultra_fast_blur(CompositeOn(frame, frame_resized(frame, rf)),
                                         regions,
                                         IF env.fail = "blur" THEN env.failAt ELSE 0)
    IN  IF self.model = "none" \/ env.fail = "inference"
        THEN OnError(frame, self.frame_cache, self.model # "none", FALSE)
        ELSE IF env.fail = "extract"
        THEN OnError(frame, self.frame_cache, TRUE, FALSE)
        ELSE IF regions # << >> /\ blurred.raised
        THEN OnError(blurred.frame, self.frame_cache, TRUE, FALSE)
        ELSE StoreAndReturn(self, IF regions # << >> THEN blurred.frame ELSE frame,
                            frame_id, regions, env)

\* UltraFastNSFWProcessor.process_frame: self is the processor's state
\* [frame_cache, cache_ttl, resize_factor, confidence_threshold, model]
process_frame(self, frame, frame_id, confidence_threshold, fast_mode, env) ==
    LET rf == ActiveResize(self, fast_mode)
        new_height == (frame.h * rf) \div 100
        new_width == (frame.w * rf) \div 100
    IN  IF Truthy(frame_id) /\ ~Hashable(frame_id)
        THEN OnError(frame, self.frame_cache, FALSE, FALSE)
        ELSE IF /\ Truthy(frame_id)
                /\ frame_id \in DOMAIN self.frame_cache
                /\ IsFresh(self.frame_cache[frame_id], env.t0, self.cache_ttl)
        THEN [ frame |-> self.frame_cache[frame_id].result,
               detections |-> self.frame_cache[frame_id].detections,
               cache |-> self.frame_cache, hit |-> TRUE, invoked |-> FALSE,
               raised |-> FALSE, stored |-> FALSE, propagated |-> FALSE ]
        ELSE IF rf # 100 /\ (env.fail = "resize" \/ ResizeRaises(new_width, new_height))
        THEN OnError(frame, self.frame_cache, FALSE, FALSE)
        ELSE Detect(self, frame, frame_id, confidence_threshold, fast_mode, env)

(***************************************************************************)
(* VideoStreamProcessor.process_single_frame.  It has no error handler: a  *)
(* raising step ends the call with no frame returned (raised is TRUE).     *)
(***************************************************************************)
process_single_frame(self, frame, confidence_threshold, results) ==
    LET rf == self.resize_factor
        new_width == (frame.w * rf) \div 100
        new_height == (frame.h * rf) \div 100
        blur_regions == single_frame_regions(results, confidence_threshold, rf)
    IN  IF \/ rf # 100 /\ ResizeRaises(new_width, new_height)
           \/ self.model = "none"
           \/ results # << >> /\ ImportLabelsRaises
        THEN [ frame |-> frame, regions |-> << >>, raised |-> TRUE ]
        ELSE [ frame |-> IF blur_regions # << >>
                         THEN apply_fast_blur(frame, blur_regions) ELSE frame,
               regions |-> blur_regions, raised |-> FALSE ]

(***************************************************************************)
(* State.                                                                  *)
(***************************************************************************)
VARIABLES
    processor,   \* the attributes of the shared UltraFastNSFWProcessor
    video,       \* the attributes of a VideoStreamProcessor
    now,         \* time.time()
    pin,         \* the input drawn for a single-call specification
    last,        \* the call made by the latest step, if it was a call: its
                 \* arguments, the age of the cache entry it met (-1: none)
                 \* and its result
    first,       \* per cached frame id, what the call that stored it returned
    threads,     \* per worker thread of the threaded server, the request it
                 \* is handling: its position in the code and its locals
    app,         \* the server process: "starting", "serving" or "halted"
    stale        \* the frame ids whose cache entry a lookup would have
                 \* treated as a miss at some instant since it was stored

vars == << processor, video, now, pin, last, first, threads, app, stale >>

\* no worker thread (the calls of a specification are made one at a time)
NoThreads == << >>

\* VideoStreamProcessor.__init__
NewVideo == [ model |-> "none", resize_factor |-> 100, frame_skip |-> 1 ]

NoInput == [ kind |-> "none" ]

\* UltraFastNSFWProcessor.__init__
NewProcessor ==
    [ model |-> "none", resize_factor |-> 50, confidence_threshold |-> 50,
      max_detections |-> 20, frame_cache |-> << >>, cache_ttl |-> 10 ]

NoCall == [ op |-> "none" ]

\* a frame as a caller submits it: no pixel overwritten
NewFrame(w, h, img) == [ w |-> w, h |-> h, img |-> img, px |-> { } ]

(***************************************************************************)
(* Inputs of the cached processor's specification.                         *)
(***************************************************************************)
FrameIds == { "None", "", "[1]", "f1" }

CallFrames == { NewFrame(FrameSide, FrameSide, i) : i \in 1..NumImages }

\* a detection in detector space: corners in half pixels, class id, confidence
Det(x1, y1, x2, y2, cls, conf) ==
    [ x1 |-> x1, y1 |-> y1, x2 |-> x2, y2 |-> y2, cls |-> cls, conf |-> conf ]

\* what the detector may return for a submitted frame
DetectorOutputs ==
    { << >>, << Det(0, 0, 4, 4, 2, 90), Det(4, 4, 8, 7, 3, 80) >> }

\* the step that raises, if any
FailPoints ==
    { [ fail |-> f, failAt |-> 0 ] :
        f \in { "none", "resize", "inference", "extract", "store", "sweep" } }
    \cup { [ fail |-> "blur", failAt |-> k ] : k \in 1..2 }

\* the clock's advance from the lookup to the store, and from the store to
\* the sweep
Delays == { << 0, 0 >>, << ClockStep, 0 >>, << 0, ClockStep >> }

(***************************************************************************)
(* Actions of the cached processor.                                        *)
(***************************************************************************)
Init ==
    /\ processor = NewProcessor
    /\ video = NewVideo
    /\ now = 0
    /\ pin = NoInput
    /\ last = NoCall
    /\ first = << >>
    /\ threads = NoThreads
    /\ app = "starting"
    /\ stale = { }

\* initialize_model succeeding: the model is loaded and the warm-up call
\* process_frame(dummy_frame) has run (no frame id: the cache is untouched)
InitializeModel ==
    /\ processor.model = "none"
    /\ processor' = [processor EXCEPT !.model = "loaded"]
    /\ last' = NoCall
    /\ UNCHANGED << video, now, pin, first, threads, app, stale >>

\* what the call that stored each entry now cached returned
Remember(cache, frame_id, r) ==
    [ k \in DOMAIN cache |->
        IF k = frame_id /\ ~r.hit /\ r.stored
        THEN [ frame |-> r.frame, detections |-> r.detections, raised |-> r.raised ]
        ELSE first[k] ]

\* one call processor.process_frame(frame, frame_id, confidence_threshold=..,
\* fast_mode=..); d is the clock's advance during the call
ProcessFrame(frame, frame_id, confidence_threshold, fast_mode, results, fp, d) ==
    /\ now + d[1] + d[2] <= MaxTime
    /\ \E r \in { process_frame(processor, frame, frame_id, confidence_threshold,
                                fast_mode,
                                [ t0 |-> now, t1 |-> now + d[1],
                                  t2 |-> now + d[1] + d[2],
                                  results |-> results, fail |-> fp.fail,
                                  failAt |-> fp.failAt ]) } :
          /\ processor' = [processor EXCEPT !.frame_cache = r.cache]
          /\ now' = IF r.hit THEN now ELSE now + d[1] + d[2]
          /\ first' = Remember(r.cache, frame_id, r)
          /\ UNCHANGED << video, pin, threads, app, stale >>
          /\ last' = [ op |-> "process_frame", frame |-> frame,
                       frame_id |-> frame_id, results |-> results,
                       threshold |-> ActiveThreshold(processor, confidence_threshold),
                       resize |-> ActiveResize(processor, fast_mode),
                       age |-> IF Truthy(frame_id) /\ Hashable(frame_id)
                                  /\ frame_id \in DOMAIN processor.frame_cache
                               THEN now - processor.frame_cache[frame_id].timestamp
                               ELSE -1,
                       ttl |-> processor.cache_ttl,
                       frame_out |-> r.frame, detections |-> r.detections,
                       hit |-> r.hit, invoked |-> r.invoked, raised |-> r.raised,
                       stored |-> r.stored, propagated |-> r.propagated ]

\* calls with arguments and surroundings drawn from the given sets
ProcessFrameAny(Frames, Ids, Thresholds, Modes, Outputs, Fails) ==
    \E frame \in Frames, frame_id \in Ids, confidence_threshold \in Thresholds,
       fast_mode \in Modes, results \in Outputs, fp \in Fails, d \in Delays :
       ProcessFrame(frame, frame_id, confidence_threshold, fast_mode, results, fp, d)

Tick ==
    /\ now + ClockStep <= MaxTime
    /\ now' = now + ClockStep
    /\ last' = NoCall
    /\ UNCHANGED << processor, video, pin, first, threads, app, stale >>

\* a clamp without its upper end
ClampBelowOnly(lo, hi, v) == Max(lo, v)

\* max(lo, min(hi, v))
Clamp(lo, hi, v) == Max(lo, Min(hi, v))

\* POST /config on processor self: data gives each key as << v >>, or << >>
\* when it is absent
config(self, data) ==
    [self EXCEPT
       !.resize_factor =
           IF data.resize_factor # << >>
           THEN Clamp(10, 100, data.resize_factor[1]) ELSE @,
       !.confidence_threshold =
           IF data.confidence_threshold # << >>
           THEN Clamp(10, 90, data.confidence_threshold[1]) ELSE @,
       !.max_detections =
           IF data.max_detections # << >>
           THEN Clamp(1, 100, data.max_detections[1]) ELSE @,
       !.cache_ttl =
           IF data.cache_ttl # << >>
           THEN Clamp(1, 100, data.cache_ttl[1]) ELSE @]

ConfigPost(data) ==
    /\ processor' = config(processor, data)
    /\ last' = NoCall
    /\ UNCHANGED << video, now, pin, first, threads, app, stale >>

\* the request bodies posted to /config while frames are being processed
ConfigInputs ==
    { [ resize_factor |-> << >>, confidence_threshold |-> << >>,
        max_detections |-> << >>, cache_ttl |-> t ] : t \in { << 0 >>, << 5 >> } }

Next ==
    \/ InitializeModel
    \/ Tick
    \/ \E data \in ConfigInputs : ConfigPost(data)
    \/ ProcessFrameAny(CallFrames, FrameIds, { << >> }, { FALSE }, DetectorOutputs,
                       FailPoints)

Spec == Init /\ [][Next]_vars

(***************************************************************************)
(* Single calls of the pipeline on enumerated detector output.             *)
(*                                                                         *)
(* The input pin is drawn in the initial state: a frame, the detector's    *)
(* output for it, the threshold argument and the mode.  The processors are *)
(* in a state that /config, or an assignment to resize_factor, leads to.   *)
(***************************************************************************)
\* detector-space x coordinates, in half pixels
XCoords == (-2 * MaxUnder)..(2 * MaxCoord)

\* detector-space y coordinates, in half pixels (whole pixels only)
YCoords == { -2 * MaxUnder, 0, 4, 2 * MaxCoord }

PipeFrames ==
    { NewFrame(MaxSide, MaxSide, 1), NewFrame(MaxSide \div 2, MaxSide \div 2 - 1, 1),
      NewFrame(2, 2, 1) }

\* class ids: a covered class, two exposed classes, an id past the labels
ClassIds == { 0, 2, 14, Len(get_labels) }

Confidences == { 40, 45, 50, 51, 90 }

\* resize factor of both processors, and the fast_mode argument
Setups ==
    { [ rf |-> 10, fast |-> FALSE ], [ rf |-> 50, fast |-> FALSE ],
      [ rf |-> 50, fast |-> TRUE ], [ rf |-> 75, fast |-> FALSE ],
      [ rf |-> 100, fast |-> FALSE ] }

\* detector outputs with several boxes, not in order of confidence, some of
\* a class that is not redacted
SeveralBoxes ==
    { << Det(0, 0, 4, 4, 3, 60), Det(2, 2, 6, 6, 0, 95), Det(4, 4, 8, 8, 14, 90) >>,
      << Det(4, 4, 8, 8, 12, 70), Det(0, 0, 4, 4, 2, 90), Det(0, 4, 4, 8, 4, 55),
         Det(4, 0, 8, 4, 6, 80) >> }

PipeInputs ==
    { [ kind |-> "pipe", frame |-> f, threshold |-> << >>, fast_mode |-> FALSE,
        results |-> << Det(x1, y1, x2, y2, 2, 90) >> ] :
        f \in PipeFrames, x1 \in XCoords, x2 \in XCoords,
        y1 \in YCoords, y2 \in YCoords }
    \cup
    { [ kind |-> "pipe", frame |-> NewFrame(MaxSide, MaxSide, 1), threshold |-> t,
        fast_mode |-> FALSE, results |-> << Det(0, 0, 8, 8, c, k) >> ] :
        t \in { << >>, << 45 >> }, c \in ClassIds, k \in Confidences }
    \cup
    { [ kind |-> "pipe", frame |-> NewFrame(MaxSide, MaxSide, 1), threshold |-> << >>,
        fast_mode |-> FALSE, results |-> << >> ] }
    \cup
    { [ kind |-> "pipe", frame |-> NewFrame(MaxSide, MaxSide, 1), threshold |-> << >>,
        fast_mode |-> FALSE, results |-> r ] : r \in SeveralBoxes }

InitPipe ==
    /\ \E su \in Setups :
          /\ processor = [NewProcessor EXCEPT !.model = "loaded",
                                               !.resize_factor = su.rf]
          /\ video = [NewVideo EXCEPT !.model = "loaded", !.resize_factor = su.rf]
          /\ \E i \in PipeInputs : pin = [ i EXCEPT !.fast_mode = su.fast ]
    /\ now = 0
    /\ last = NoCall
    /\ first = << >>
    /\ threads = NoThreads
    /\ app = "starting"
    /\ stale = { }

\* processor.process_frame(frame, confidence_threshold=.., fast_mode=..) on
\* the drawn input, with no frame id
PipeProcessFrame ==
    /\ last = NoCall
    /\ ProcessFrame(pin.frame, "None", pin.threshold, pin.fast_mode, pin.results,
                    [ fail |-> "none", failAt |-> 0 ], << 0, 0 >>)

\* the default of process_single_frame's confidence_threshold is 0.4
StreamThreshold(threshold) == IF threshold # << >> THEN threshold[1] ELSE 40

\* video.process_single_frame(frame, confidence_threshold) on the drawn input
PipeSingleFrame ==
    /\ last = NoCall
    /\ \E r \in { process_single_frame(video, pin.frame,
                                        StreamThreshold(pin.threshold), pin.results) } :
          last' = [ op |-> "process_single_frame", frame |-> pin.frame,
                    results |-> pin.results,
                    threshold |-> StreamThreshold(pin.threshold),
                    resize |-> video.resize_factor,
                    frame_out |-> r.frame, regions |-> r.regions,
                    raised |-> r.raised ]
    /\ UNCHANGED << processor, video, now, pin, first, threads, app, stale >>

\* processor._extract_blur_regions(results, frame.shape[:2], resize_factor)
\* as process_frame calls it on the drawn input
PipeExtract ==
    /\ last = NoCall
    /\ last' = [ op |-> "extract_blur_regions", frame |-> pin.frame,
                 results |-> pin.results,
                 resize |-> ActiveResize(processor, pin.fast_mode),
                 regions |-> extract_blur_regions(pin.results, pin.frame.w,
                                pin.frame.h, ActiveResize(processor, pin.fast_mode)) ]
    /\ UNCHANGED << processor, video, now, pin, first, threads, app, stale >>

\* the same call in a process where "from test_pytorch_model import
\* get_labels" raises ImportError
PipeExtractFallback ==
    /\ last = NoCall
    /\ last' = [ op |-> "extract_blur_regions", frame |-> pin.frame,
                 results |-> pin.results,
                 resize |-> ActiveResize(processor, pin.fast_mode),
                 regions |-> ExtractWith(placeholder_labels, pin.results,
                                pin.frame.w, pin.frame.h,
                                ActiveResize(processor, pin.fast_mode)) ]
    /\ UNCHANGED << processor, video, now, pin, first, threads, app, stale >>

NextPipe ==
    PipeProcessFrame \/ PipeSingleFrame \/ PipeExtract \/ PipeExtractFallback

SpecPipe == InitPipe /\ [][NextPipe]_vars

(***************************************************************************)
(* Single calls of the three compositors on enumerated region lists.       *)
(* Region coordinates are pixel coordinates of the frame or beyond its     *)
(* right and bottom edges; none is negative.                               *)
(***************************************************************************)
RegionX == 0..(FrameSide + 2)

RegionY == { 0, 1, FrameSide - 3, FrameSide, FrameSide + 2 }

Box(x1, y1, x2, y2) ==
    [ x1 |-> x1, y1 |-> y1, x2 |-> x2, y2 |-> y2,
      class |-> "BUTTOCKS_EXPOSED", conf |-> 90 ]

\* boxes that overlap, touch, or are degenerate, for lists of two regions
PairBoxes ==
    { Box(0, 0, 6, 6), Box(4, 4, FrameSide, FrameSide), Box(2, 0, 3, FrameSide),
      Box(5, 5, 5, 7) }

BlurInputs ==
    { [ kind |-> "blur", frame |-> NewFrame(FrameSide, FrameSide, 1),
        regions |-> << Box(x1, y1, x2, y2) >> ] :
        x1 \in RegionX, x2 \in RegionX, y1 \in RegionY, y2 \in RegionY }
    \cup
    { [ kind |-> "blur", frame |-> NewFrame(FrameSide, FrameSide, 1),
        regions |-> << a, b >> ] : a \in PairBoxes, b \in PairBoxes }

InitBlur ==
    /\ processor = [NewProcessor EXCEPT !.model = "loaded"]
    /\ video = [NewVideo EXCEPT !.model = "loaded"]
    /\ pin \in BlurInputs
    /\ now = 0
    /\ last = NoCall
    /\ first = << >>
    /\ threads = NoThreads
    /\ app = "starting"
    /\ stale = { }

\* processor._apply_ultra_fast_blur(frame, blur_regions)
BlurUltraFast ==
    /\ last = NoCall
    /\ \E r \in { apply_ultra_fast_blur(pin.frame, pin.regions, 0) } :
          last' = [ op |-> "_apply_ultra_fast_blur", frame |-> pin.frame,
                    regions |-> pin.regions, padding |-> 0,
                    frame_out |-> r.frame, raised |-> r.raised ]
    /\ UNCHANGED << processor, video, now, pin, first, threads, app, stale >>

\* video.apply_fast_blur(frame, blur_regions)
BlurFast ==
    /\ last = NoCall
    /\ last' = [ op |-> "apply_fast_blur", frame |-> pin.frame,
                 regions |-> pin.regions, padding |-> 0,
                 frame_out |-> apply_fast_blur(pin.frame, pin.regions),
                 raised |-> FALSE ]
    /\ UNCHANGED << processor, video, now, pin, first, threads, app, stale >>

\* apply_fast_realtime_blur(frame, blur_regions)
BlurRealtime ==
    /\ last = NoCall
    /\ last' = [ op |-> "apply_fast_realtime_blur", frame |-> pin.frame,
                 regions |-> pin.regions, padding |-> 3,
                 frame_out |-> apply_fast_realtime_blur(pin.frame, pin.regions),
                 raised |-> FALSE ]
    /\ UNCHANGED << processor, video, now, pin, first, threads, app, stale >>

NextBlur == BlurUltraFast \/ BlurFast \/ BlurRealtime

SpecBlur == InitBlur /\ [][NextBlur]_vars

(***************************************************************************)
(* Kernel sizes of the Gaussian blur.                                      *)
(***************************************************************************)
\* a kernel size left even
ultra_fast_kernel_size_even(w, h) == Min(15, Max(5, Min(w \div 4, h \div 4)))

\* "Adaptive kernel size based on region size" in _apply_ultra_fast_blur,
\* for a region of interest of w x h pixels
ultra_fast_kernel_size(w, h) ==
    LET kernel_size == Min(15, Max(5, Min(w \div 4, h \div 4)))
    IN  IF kernel_size % 2 = 0 THEN kernel_size + 1 ELSE kernel_size

\* GPUOptimizedProcessor._get_blur_kernel
get_blur_kernel(size) ==
    LET kernel_size == Min(15, Max(5, size \div 4))
    IN  IF kernel_size % 2 = 0 THEN kernel_size + 1 ELSE kernel_size

\* the kernel size of _apply_optimized_blur_cpu for a region of w x h pixels:
\* region_size = min(x2 - x1, y2 - y1)
optimized_kernel_size(w, h) == get_blur_kernel(Min(w, h))

KernelInputs ==
    { [ kind |-> "kernel", w |-> w, h |-> h ] :
        w \in 1..MaxRegionSide, h \in 1..MaxRegionSide }

InitKernel ==
    /\ processor = [NewProcessor EXCEPT !.model = "loaded"]
    /\ video = NewVideo
    /\ now = 0
    /\ pin \in KernelInputs
    /\ last = NoCall
    /\ first = << >>
    /\ threads = NoThreads
    /\ app = "serving"
    /\ stale = { }

\* _apply_ultra_fast_blur sizes its kernel for the drawn region
KernelUltraFast ==
    /\ last = NoCall
    /\ last' = [ op |-> "_apply_ultra_fast_blur", w |-> pin.w, h |-> pin.h,
                 kernel_size |-> ultra_fast_kernel_size(pin.w, pin.h) ]
    /\ UNCHANGED << processor, video, now, pin, first, threads, app, stale >>

\* _apply_optimized_blur_cpu sizes its kernel for the drawn region
KernelOptimized ==
    /\ last = NoCall
    /\ last' = [ op |-> "_apply_optimized_blur_cpu", w |-> pin.w, h |-> pin.h,
                 kernel_size |-> optimized_kernel_size(pin.w, pin.h) ]
    /\ UNCHANGED << processor, video, now, pin, first, threads, app, stale >>

NextKernel == KernelUltraFast \/ KernelOptimized

SpecKernel == InitKernel /\ [][NextKernel]_vars

(***************************************************************************)
(* GPUOptimizedProcessor.process_frame_gpu on a CUDA device.  The frame is  *)
(* resized to target_size x target_size for the detector, so a detection    *)
(* is in that space.  What the compositor wrote is kept as the sequence of  *)
(* boxes it blurred, not as pixels.                                         *)
(***************************************************************************)
\* target_size = 640  # YOLO input size
target_size == 640

\* the name that "from test_pytorch_model import __labels" asks for in a
\* method of class GPUOptimizedProcessor
GpuMangledLabelsName == "_GPUOptimizedProcessor__labels"

\* the import at the head of the try block of _extract_detections_fast raises
GpuImportLabelsRaises == GpuMangledLabelsName \notin test_pytorch_model_names

\* class_name in nsfw_classes and confs[i] > 0.4
GpuSelects(d) ==
    /\ d.cls < Len(get_labels)
    /\ get_labels[d.cls + 1] \in nsfw_classes
    /\ d.conf > 40

\* GPUOptimizedProcessor._extract_detections_fast: the except branch prints
\* the error and the regions collected so far are returned
extract_detections_fast(results) ==
    IF GpuImportLabelsRaises
    THEN << >>
    ELSE LET sel == SelectSeq(results, GpuSelects)
         IN  [ i \in 1..Len(sel) |->
                 [ x1 |-> IntCoord(sel[i].x1), y1 |-> IntCoord(sel[i].y1),
                   x2 |-> IntCoord(sel[i].x2), y2 |-> IntCoord(sel[i].y2) ] ]

\* "Ensure bounds" in _apply_optimized_blur_cpu
OptimizedBounds(b, W, H) ==
    [ x1 |-> Max(0, b.x1), y1 |-> Max(0, b.y1),
      x2 |-> Min(W, b.x2), y2 |-> Min(H, b.y2) ]

\* the region is blurred
OptimizedBlurs(b, W, H) ==
    /\ b.x2 > b.x1 /\ b.y2 > b.y1
    /\ OptimizedBounds(b, W, H).x2 > OptimizedBounds(b, W, H).x1
    /\ OptimizedBounds(b, W, H).y2 > OptimizedBounds(b, W, H).y1

\* GPUOptimizedProcessor._apply_optimized_blur_cpu: the boxes written
apply_optimized_blur_cpu(frame, blur_regions) ==
    LET done == SelectSeq(blur_regions,
                          LAMBDA b : OptimizedBlurs(b, frame.w, frame.h))
    IN  [ i \in 1..Len(done) |-> OptimizedBounds(done[i], frame.w, frame.h) ]

\* GPUOptimizedProcessor._apply_gpu_blur
apply_gpu_blur(frame, results) ==
    LET blur_regions == extract_detections_fast(results)
    IN  IF blur_regions = << >> THEN << >>
        ELSE apply_optimized_blur_cpu(frame, blur_regions)

\* GPUOptimizedProcessor.process_frame_gpu with device "cuda"
process_frame_gpu(frame, results) ==
    [ frame |-> frame, blurred |-> apply_gpu_blur(frame, results) ]

\* frames of the target size, larger and smaller than it, as << w, h >>
GpuFrameSizes == { << 640, 640 >>, << 1280, 720 >>, << 320, 240 >> }

\* corners of detector boxes in the target space, in half pixels
GpuCoords == { 0, 320, 1281 }

GpuInputs ==
    { [ kind |-> "gpu", frame |-> NewFrame(sz[1], sz[2], 1),
        results |-> << Det(x1, y1, x2, y2, c, k) >> ] :
        sz \in GpuFrameSizes, x1 \in GpuCoords, y1 \in GpuCoords,
        x2 \in GpuCoords, y2 \in GpuCoords, c \in { 2, 5 }, k \in { 40, 90 } }

InitGpu ==
    /\ processor = NewProcessor
    /\ video = NewVideo
    /\ now = 0
    /\ pin \in GpuInputs
    /\ last = NoCall
    /\ first = << >>
    /\ threads = NoThreads
    /\ app = "starting"
    /\ stale = { }

GpuProcessFrame ==
    /\ last = NoCall
    /\ \E r \in { process_frame_gpu(pin.frame, pin.results) } :
          last' = [ op |-> "process_frame_gpu", frame |-> pin.frame,
                    results |-> pin.results, frame_out |-> r.frame,
                    blurred |-> r.blurred ]
    /\ UNCHANGED << processor, video, now, pin, first, threads, app, stale >>

NextGpu == GpuProcessFrame

SpecGpu == InitGpu /\ [][NextGpu]_vars

(***************************************************************************)
(* VideoStreamProcessor.process_video_file with an output path, after       *)
(* initialize_model and the opening of the capture have succeeded.  cap is  *)
(* the capture: [frames, fps, total_frames], frames being the sequence of   *)
(* [frame, results] it yields, results what the detector returns for the    *)
(* frame.  The function has a finally clause and no except: a raising step  *)
(* ends the loop.                                                           *)
(***************************************************************************)
\* the loop from the read of frame number frame_count on; written is what
\* the writer got so far
RECURSIVE video_loop(_, _, _, _, _)
video_loop(self, cap, confidence_threshold, frame_count, written) ==
    IF frame_count > Len(cap.frames)
    THEN [ written |-> written, read |-> frame_count - 1, raised |-> FALSE ]
    ELSE LET frame == cap.frames[frame_count].frame
             r == process_single_frame(self, frame, confidence_threshold,
                                       cap.frames[frame_count].results)
         IN  IF self.frame_skip = 0
             THEN [ written |-> written, read |-> frame_count, raised |-> TRUE ]
             ELSE IF frame_count % self.frame_skip # 0
             THEN video_loop(self, cap, confidence_threshold, frame_count + 1,
                             Append(written, frame))
             ELSE IF r.raised
             THEN [ written |-> written, read |-> frame_count, raised |-> TRUE ]
             ELSE IF \/ cap.fps = 0
                     \/ /\ frame_count % (cap.fps * 5) = 0
                        /\ cap.total_frames = 0
             THEN [ written |-> Append(written, r.frame), read |-> frame_count,
                    raised |-> TRUE ]
             ELSE video_loop(self, cap, confidence_threshold, frame_count + 1,
                             Append(written, r.frame))

process_video_file(self, cap, confidence_threshold) ==
    video_loop([self EXCEPT !.model = "loaded"], cap, confidence_threshold, 1, << >>)

\* what the detector returns for a frame of a file: nothing, a box of a
\* redacted class, a box of another class
FileResults ==
    { << >>, << Det(0, 0, 8, 8, 2, 90) >>, << Det(0, 0, 8, 8, 12, 90) >> }

\* the frames of a file of n frames, frame k showing image k
FileFrames(n) ==
    { [ k \in 1..n |-> [ frame |-> NewFrame(FrameSide, FrameSide, k),
                         results |-> rs[k] ] ] :
        rs \in [ 1..n -> FileResults ] }

\* int(cap.get(cv2.CAP_PROP_FPS)): 0 when the container gives no rate
FileRates == { 0, 30 }

VideoInputs ==
    { [ kind |-> "video", fps |-> fps, total_frames |-> Len(fs), frames |-> fs ] :
        fps \in FileRates, fs \in UNION { FileFrames(n) : n \in 0..MaxFrames } }

InitVideo ==
    /\ processor = NewProcessor
    /\ \E n \in { 1, 2 } : video = [NewVideo EXCEPT !.frame_skip = n]
    /\ now = 0
    /\ pin \in VideoInputs
    /\ last = NoCall
    /\ first = << >>
    /\ threads = NoThreads
    /\ app = "starting"
    /\ stale = { }

\* video.process_video_file(input_path, output_path) on the drawn file
VideoProcessFile ==
    /\ last = NoCall
    /\ \E r \in { process_video_file(video, pin, 40) } :
          last' = [ op |-> "process_video_file", frames |-> pin.frames,
                    frame_skip |-> video.frame_skip, fps |-> pin.fps,
                    written |-> r.written, read |-> r.read, raised |-> r.raised ]
    /\ UNCHANGED << processor, video, now, pin, first, threads, app, stale >>

NextVideo == VideoProcessFile

SpecVideo == InitVideo /\ [][NextVideo]_vars

(***************************************************************************)
(* POST /config requests on their own.                                     *)
(***************************************************************************)
ConfigKeys ==
    { "resize_factor", "confidence_threshold", "max_detections", "cache_ttl" }

\* per key the values posted: one below its range, one inside, one above
PostedValues ==
    [ resize_factor |-> { 5, 70, 150 }, confidence_threshold |-> { 5, 70, 95 },
      max_detections |-> { 0, 50, 101 }, cache_ttl |-> { 0, 50, 200 } ]

\* the request bodies: any one or two keys, none, or all four
ConfigBodies ==
    { d \in [ ConfigKeys -> { << >> } \cup
                            { << v >> : v \in UNION { PostedValues[k] : k \in ConfigKeys } } ] :
        /\ \A k \in ConfigKeys : d[k] # << >> => d[k][1] \in PostedValues[k]
        /\ Cardinality({ k \in ConfigKeys : d[k] # << >> }) \in { 0, 1, 2, 4 } }

InitConfig ==
    /\ processor = NewProcessor
    /\ video = NewVideo
    /\ now = 0
    /\ pin = NoInput
    /\ last = NoCall
    /\ first = << >>
    /\ threads = NoThreads
    /\ app = "serving"
    /\ stale = { }

\* POST /config with body data
ConfigRequest(data) ==
    /\ processor' = config(processor, data)
    /\ last' = [ op |-> "config", data |-> data, before |-> processor ]
    /\ UNCHANGED << video, now, pin, first, threads, app, stale >>

NextConfig == \E data \in ConfigBodies : ConfigRequest(data)

SpecConfig == InitConfig /\ [][NextConfig]_vars

(***************************************************************************)
(* Concurrent /process-frame requests.                                     *)
(*                                                                         *)
(* app.run(threaded=True) handles each request on a thread of its own; all *)
(* threads share the one processor.  The interpreter switches threads      *)
(* between statements, so each action below is one statement, or a run of  *)
(* statements that touch only locals, of the route process_frame and of    *)
(* UltraFastNSFWProcessor.process_frame, executed by thread t.  The pc of  *)
(* a thread names the statement it executes next.                          *)
(***************************************************************************)
Workers == { 1, 2 }

\* the frame ids that the requests handled by thread t carry
WorkerIds(t) == IF t = 1 THEN { "f1" } ELSE { "f1", "f2" }

\* the confidences that the requests carry (left out, or 0.7)

WorkerConfidences == { << >>, << 70 >> }

\* the detector's answer to every frame of these requests
WorkerResults == << Det(0, 0, 4, 4, 2, 90) >>

\* a thread between two requests
IdleThread ==
    [ pc |-> "idle", frame_id |-> "None", supplied |-> << >>, confidence |-> 0,
      original_threshold |-> 0, conf_threshold |-> 0, frame |-> NewFrame(1, 1, 1),
      detections |-> << >>, cache_entry |-> << >>, current_time |-> 0,
      scan_size |-> 0, expired_keys |-> << >> ]

\* the model is loaded and /config has set cache_ttl to its minimum, 0.01 s
InitThreads ==
    /\ processor = [NewProcessor EXCEPT !.model = "loaded",
                                        !.cache_ttl = Clamp(1, 100, 1)]
    /\ video = NewVideo
    /\ now = 0
    /\ pin = NoInput
    /\ last = NoCall
    /\ first = << >>
    /\ threads = [ t \in Workers |-> IdleThread ]
    /\ app = "serving"
    /\ stale = { }

\* thread t goes to statement pc with its locals changed to rec
Goto(t, pc, rec) == threads' = [threads EXCEPT ![t] = [rec EXCEPT !.pc = pc]]

\* the except branch of process_frame in thread t: return frame, []
Except(t, rec) == Goto(t, "restore", [rec EXCEPT !.detections = << >>])

\* the route up to "confidence = data.get('confidence',
\* processor.confidence_threshold)"
Receive(t, frame_id, confidence) ==
    /\ app = "serving"
    /\ threads[t].pc = "idle"
    /\ Goto(t, "save",
            [threads[t] EXCEPT
               !.frame_id = frame_id,
               !.supplied = confidence,
               !.confidence = IF confidence # << >> THEN confidence[1]
                              ELSE processor.confidence_threshold,
               !.frame = NewFrame(FrameSide, FrameSide, t)])
    /\ UNCHANGED << processor, video, now, pin, last, first, app, stale >>

\* original_threshold = processor.confidence_threshold
SaveThreshold(t) ==
    /\ threads[t].pc = "save"
    /\ Goto(t, "swap", [threads[t] EXCEPT
                          !.original_threshold = processor.confidence_threshold])
    /\ UNCHANGED << processor, video, now, pin, last, first, app, stale >>

\* if confidence != original_threshold:
\*     processor.confidence_threshold = confidence
SwapThreshold(t) ==
    /\ threads[t].pc = "swap"
    /\ processor' = IF threads[t].confidence # threads[t].original_threshold
                    THEN [processor EXCEPT
                            !.confidence_threshold = threads[t].confidence]
                    ELSE processor
    /\ Goto(t, "lookup", threads[t])
    /\ UNCHANGED << video, now, pin, last, first, app, stale >>

\* if frame_id and frame_id in self.frame_cache
Lookup(t) ==
    /\ threads[t].pc = "lookup"
    /\ IF Truthy(threads[t].frame_id)
          /\ threads[t].frame_id \in DOMAIN processor.frame_cache
       THEN Goto(t, "fetch", threads[t])
       ELSE Goto(t, "snapshot", threads[t])
    /\ UNCHANGED << processor, video, now, pin, last, first, app, stale >>

\* cache_entry = self.frame_cache[frame_id]; KeyError when the entry has
\* been deleted since the membership test
Fetch(t) ==
    /\ threads[t].pc = "fetch"
    /\ IF threads[t].frame_id \in DOMAIN processor.frame_cache
       THEN Goto(t, "fresh", [threads[t] EXCEPT
                !.cache_entry = processor.frame_cache[threads[t].frame_id]])
       ELSE Except(t, threads[t])
    /\ UNCHANGED << processor, video, now, pin, last, first, app, stale >>

\* if time.time() - cache_entry['timestamp'] < self.cache_ttl: return the
\* cached frame and detections
Fresh(t) ==
    /\ threads[t].pc = "fresh"
    /\ IF IsFresh(threads[t].cache_entry, now, processor.cache_ttl)
       THEN Goto(t, "restore", [threads[t] EXCEPT
                !.frame = threads[t].cache_entry.result,
                !.detections = threads[t].cache_entry.detections])
       ELSE Goto(t, "snapshot", threads[t])
    /\ UNCHANGED << processor, video, now, pin, last, first, app, stale >>

\* conf_threshold = self.confidence_threshold (the route passes no
\* confidence_threshold), the resize, and the call of the detector with
\* conf=conf_threshold
InferBegin(t) ==
    /\ threads[t].pc = "snapshot"
    /\ Goto(t, "infer", [threads[t] EXCEPT
            !.conf_threshold = ActiveThreshold(processor, << >>)])
    /\ UNCHANGED << processor, video, now, pin, last, first, app, stale >>

\* the detector returns; _extract_blur_regions, the detection list and
\* _apply_ultra_fast_blur work on locals and on the request's own frame
InferEnd(t) ==
    /\ threads[t].pc = "infer"
    /\ LET frame == threads[t].frame
           regions == extract_blur_regions(WorkerResults, frame.w, frame.h,
                                           ActiveResize(processor, FALSE))
           blurred == apply_ultra_fast_blur(frame, regions, 0)
           rec == [threads[t] EXCEPT !.frame = blurred.frame,
                                     !.detections = ToDetections(regions)]
       IN  IF blurred.raised
           THEN Except(t, rec)
           ELSE Goto(t, IF Truthy(threads[t].frame_id) THEN "store" ELSE "restore",
                     rec)
    /\ UNCHANGED << processor, video, now, pin, last, first, app, stale >>

\* self.frame_cache[frame_id] = {'result': .., 'detections': ..,
\*                               'timestamp': time.time()}
Store(t) ==
    /\ threads[t].pc = "store"
    /\ processor' = [processor EXCEPT !.frame_cache =
            StoreEntry(@, threads[t].frame_id, threads[t].frame,
                       threads[t].detections, now)]
    /\ Goto(t, "scan", threads[t])
    /\ UNCHANGED << video, now, pin, last, first, app, stale >>

\* _clean_cache: current_time = time.time(), and the list comprehension
\* starts to iterate over self.frame_cache.items()
ScanBegin(t) ==
    /\ threads[t].pc = "scan"
    /\ Goto(t, "scanning", [threads[t] EXCEPT
            !.current_time = now,
            !.scan_size = Cardinality(DOMAIN processor.frame_cache)])
    /\ UNCHANGED << processor, video, now, pin, last, first, app, stale >>

\* the keys of cache as a sequence, in the one order every iteration takes
RECURSIVE KeysOf(_)
KeysOf(cache) ==
    IF DOMAIN cache = { }
    THEN << >>
    ELSE LET k == CHOOSE k \in DOMAIN cache : TRUE
         IN  << k >> \o KeysOf([ j \in DOMAIN cache \ { k } |-> cache[j] ])

\* the iteration ends: RuntimeError when the dict changed size meanwhile,
\* else expired_keys holds the keys with current_time - timestamp > cache_ttl
ScanEnd(t) ==
    /\ threads[t].pc = "scanning"
    /\ IF Cardinality(DOMAIN processor.frame_cache) # threads[t].scan_size
       THEN Except(t, threads[t])
       ELSE LET expired_keys ==
                    SelectSeq(KeysOf(processor.frame_cache),
                        LAMBDA k : IsExpired(processor.frame_cache[k],
                                       threads[t].current_time, processor.cache_ttl))
            IN  Goto(t, IF expired_keys # << >> THEN "delete" ELSE "restore",
                     [threads[t] EXCEPT !.expired_keys = expired_keys])
    /\ UNCHANGED << processor, video, now, pin, last, first, app, stale >>

\* del self.frame_cache[key] for the next expired key; KeyError when the
\* key is no longer there
Delete(t) ==
    /\ threads[t].pc = "delete"
    /\ LET key == Head(threads[t].expired_keys)
           rest == Tail(threads[t].expired_keys)
       IN  IF key \in DOMAIN processor.frame_cache
           THEN /\ processor' = [processor EXCEPT !.frame_cache =
                       [ k \in DOMAIN @ \ { key } |-> @[k] ]]
                /\ Goto(t, IF rest # << >> THEN "delete" ELSE "restore",
                        [threads[t] EXCEPT !.expired_keys = rest])
           ELSE /\ processor' = processor
                /\ Except(t, [threads[t] EXCEPT !.expired_keys = << >>])
    /\ UNCHANGED << video, now, pin, last, first, app, stale >>

\* processor.confidence_threshold = original_threshold, and the response
RestoreThreshold(t) ==
    /\ threads[t].pc = "restore"
    /\ processor' = [processor EXCEPT
                       !.confidence_threshold = threads[t].original_threshold]
    /\ threads' = [threads EXCEPT ![t] = IdleThread]
    /\ UNCHANGED << video, now, pin, last, first, app, stale >>

\* the clock advances while requests are in flight
WorkerTick ==
    /\ now + ClockStep <= WorkerTicks * ClockStep
    /\ Tick

NextThreads ==
    \/ WorkerTick
    \/ \E t \in Workers :
          \/ \E f \in WorkerIds(t), c \in WorkerConfidences : Receive(t, f, c)
          \/ SaveThreshold(t)
          \/ SwapThreshold(t)
          \/ Lookup(t)
          \/ Fetch(t)
          \/ Fresh(t)
          \/ InferBegin(t)
          \/ InferEnd(t)
          \/ Store(t)
          \/ ScanBegin(t)
          \/ ScanEnd(t)
          \/ Delete(t)
          \/ RestoreThreshold(t)

SpecThreads == InitThreads /\ [][NextThreads]_vars

(***************************************************************************)
(* Start of the server: initialize_app() runs initialize_model() when the  *)
(* module is loaded and exits the process when it reports failure.         *)
(***************************************************************************)
\* the steps of initialize_model that can raise, or "none"
InitFailures == { "none", "path", "load", "to", "half", "warmup" }

\* dummy_frame = np.zeros((480, 640, 3)), in which the detector finds nothing
DummyFrame == NewFrame(640, 480, 0)

\* UltraFastNSFWProcessor.initialize_model; fail is the step that raises.
\* The result gives the model attribute afterwards, the value returned and
\* whether the warm-up inference failed.
initialize_model(self, fail, t) ==
    IF fail \in { "path", "load" }
    THEN [ model |-> self.model, returned |-> FALSE, warmup_failed |-> FALSE ]
    ELSE IF fail \in { "to", "half" }
    THEN [ model |-> "loaded", returned |-> FALSE, warmup_failed |-> FALSE ]
    ELSE LET warm == process_frame([self EXCEPT !.model = "loaded"], DummyFrame,
                         "None", << >>, FALSE,
                         [ t0 |-> t, t1 |-> t, t2 |-> t, results |-> << >>,
                           fail |-> IF fail = "warmup" THEN "inference" ELSE "none",
                           failAt |-> 0 ])
         IN  IF warm.propagated
             THEN [ model |-> "loaded", returned |-> FALSE, warmup_failed |-> TRUE ]
             ELSE [ model |-> "loaded", returned |-> TRUE,
                    warmup_failed |-> warm.raised ]

\* initialize_app: if not processor.initialize_model(): exit(1)
InitializeApp(fail) ==
    /\ app = "starting"
    /\ \E r \in { initialize_model(processor, fail, now) } :
          /\ processor' = [processor EXCEPT !.model = r.model]
          /\ app' = IF r.returned THEN "serving" ELSE "halted"
          /\ last' = [ op |-> "initialize_model", fail |-> fail,
                       returned |-> r.returned,
                       warmup_failed |-> r.warmup_failed ]
    /\ UNCHANGED << video, now, pin, first, threads, stale >>

\* a request reaches process_frame once the server runs
Serve ==
    /\ app = "serving"
    /\ ProcessFrameAny(CallFrames, { "None", "f1" }, { << >> }, { FALSE },
                       DetectorOutputs,
                       { [ fail |-> "none", failAt |-> 0 ],
                         [ fail |-> "inference", failAt |-> 0 ] })

NextInit ==
    \/ \E fail \in InitFailures : InitializeApp(fail)
    \/ Serve
    \/ (app = "serving" /\ Tick)

SpecInit == Init /\ [][NextInit]_vars

(***************************************************************************)
(* The life of cache entries while cache_ttl is reconfigured: calls with    *)
(* frame ids, the clock and POST /config with a cache_ttl.                  *)
(***************************************************************************)
TtlIds == { "f1", "f2" }

\* the cache_ttl values posted: 0.05 s and 0.1 s
TtlInputs ==
    { [ resize_factor |-> << >>, confidence_threshold |-> << >>,
        max_detections |-> << >>, cache_ttl |-> << t >> ] : t \in { 5, 10 } }

\* the ids whose entry the lookup of process_frame treats as a miss at t
StaleNow(cache, t, ttl) ==
    { k \in DOMAIN cache : ~IsFresh(cache[k], t, ttl) }

InitTtl ==
    /\ processor = [NewProcessor EXCEPT !.model = "loaded"]
    /\ video = NewVideo
    /\ now = 0
    /\ pin = NoInput
    /\ last = NoCall
    /\ first = << >>
    /\ threads = NoThreads
    /\ app = "serving"
    /\ stale = { }

TtlProcessFrame(frame, frame_id, results, d) ==
    /\ now + d[1] + d[2] <= MaxTime
    /\ \E r \in { process_frame(processor, frame, frame_id, << >>, FALSE,
                                [ t0 |-> now, t1 |-> now + d[1],
                                  t2 |-> now + d[1] + d[2],
                                  results |-> results, fail |-> "none",
                                  failAt |-> 0 ]) } :
          /\ processor' = [processor EXCEPT !.frame_cache = r.cache]
          /\ now' = IF r.hit THEN now ELSE now + d[1] + d[2]
          /\ first' = Remember(r.cache, frame_id, r)
          /\ stale' = StaleNow(r.cache, now', processor.cache_ttl)
                        \cup ((stale \ (IF r.stored THEN { frame_id } ELSE { }))
                                 \cap DOMAIN r.cache)
          /\ last' = [ op |-> "process_frame", frame |-> frame,
                       frame_id |-> frame_id, results |-> results,
                       was_stale |-> frame_id \in stale,
                       ttl |-> processor.cache_ttl,
                       frame_out |-> r.frame, detections |-> r.detections,
                       hit |-> r.hit, invoked |-> r.invoked, raised |-> r.raised,
                       stored |-> r.stored, propagated |-> r.propagated ]
          /\ UNCHANGED << video, pin, threads, app >>

TtlTick ==
    /\ now + ClockStep <= MaxTime
    /\ now' = now + ClockStep
    /\ stale' = stale \cup StaleNow(processor.frame_cache, now', processor.cache_ttl)
    /\ last' = NoCall
    /\ UNCHANGED << processor, video, pin, first, threads, app >>

TtlConfigPost(data) ==
    /\ processor' = config(processor, data)
    /\ stale' = stale \cup StaleNow(processor.frame_cache, now, processor'.cache_ttl)
    /\ last' = NoCall
    /\ UNCHANGED << video, now, pin, first, threads, app >>

NextTtl ==
    \/ \E frame \in CallFrames, frame_id \in TtlIds, results \in DetectorOutputs,
          d \in Delays : TtlProcessFrame(frame, frame_id, results, d)
    \/ TtlTick
    \/ \E data \in TtlInputs : TtlConfigPost(data)

SpecTtl == InitTtl /\ [][NextTtl]_vars

(***************************************************************************)
(* Properties of the cache and the error handling of process_frame,        *)
(* stated for Spec.                                                         *)
(***************************************************************************)
\* the step is a call process_frame(.., frame_id = f) that meets an entry
\* for f in the cache
CallMeets(f) ==
    /\ last'.op = "process_frame"
    /\ last'.frame_id = f
    /\ f \in DOMAIN processor.frame_cache

\* C1: a call with a frame id whose entry was stored by a call that completed
\* normally, made while now - timestamp < cache_ttl, does not invoke the
\* detector and returns the detections and the processed frame that the
\* storing call returned.
C1_FreshEntryIsServed ==
    [][ \A f \in FrameIds :
          ( /\ CallMeets(f)
            /\ ~first[f].raised
            /\ now - processor.frame_cache[f].timestamp < processor.cache_ttl )
          => /\ ~last'.invoked
             /\ ~last'.raised
             /\ last'.detections = first[f].detections
             /\ last'.frame_out = first[f].frame ]_vars

\* a second call within the time-to-live was served the first call's
\* redacted frame and detections although it submitted another frame
C1_Witness ==
    /\ last.op = "process_frame"
    /\ last.hit
    /\ last.age >= 0 /\ last.age < last.ttl
    /\ last.detections # << >>
    /\ last.frame_out.img # last.frame.img
    /\ last.frame_out.px # { }

\* C2: a call that meets an entry whose age is no longer below cache_ttl
\* (now - timestamp >= cache_ttl) is a miss: it is not served from the cache,
\* and unless a step of the call fails the detector is invoked and the call
\* returns what it computed from this invocation for its own frame.
C2_StaleEntryIsMiss ==
    [][ \A f \in FrameIds :
          ( /\ CallMeets(f)
            /\ now - processor.frame_cache[f].timestamp >= processor.cache_ttl )
          => /\ ~last'.hit
             /\ ~last'.raised =>
                   /\ last'.invoked
                   /\ last'.frame_out.img = last'.frame.img
                   /\ last'.detections =
                        ToDetections(extract_blur_regions(last'.results,
                            last'.frame.w, last'.frame.h, last'.resize)) ]_vars

\* a call met an entry whose age equals the time-to-live, invoked the
\* detector and returned the regions found in its own frame
C2_Witness ==
    /\ last.op = "process_frame"
    /\ last.age = last.ttl
    /\ last.invoked /\ ~last.raised /\ ~last.hit
    /\ last.detections # << >>
    /\ last.frame_out.img = last.frame.img

\* C3: process_frame never lets an exception reach its caller, and a call in
\* which a step failed returns an empty detection list.
C3_ErrorsContained ==
    last.op = "process_frame" =>
        /\ ~last.propagated
        /\ last.raised => last.detections = << >>

\* a call failed in its cache sweep, after the detector had found regions
\* and the entry had been stored, and returned no detection
C3_Witness ==
    /\ last.op = "process_frame"
    /\ last.raised /\ last.stored /\ last.invoked
    /\ last.detections = << >>
    /\ processor.frame_cache[last.frame_id].detections # << >>

\* C4: whenever process_frame takes its failure path, the frame it returns is
\* pixel-identical to the frame the caller passed in.
C4_FailureReturnsOriginalFrame ==
    (last.op = "process_frame" /\ last.raised) => last.frame_out = last.frame

\* C28: the result of process_frame depends only on the frame and options
\* of that call: a call that carries a frame id, whatever other call used
\* the same id, returns the pixels of its own frame and the detections of
\* its own frame.
C28_ResultIsOfOwnCall ==
    (last.op = "process_frame" /\ Truthy(last.frame_id) /\ ~last.raised) =>
        /\ last.frame_out.img = last.frame.img
        /\ last.detections =
              ToDetections(extract_blur_regions(last.results, last.frame.w,
                                                last.frame.h, last.resize))

\* C20: a cleanup pass leaves no entry that a lookup at that instant treats
\* as a miss: after a call that stored and swept, every entry of the cache is
\* younger than cache_ttl (an entry of age exactly cache_ttl is removed).
C20_SweepRemovesStale ==
    (last.op = "process_frame" /\ last.stored /\ ~last.raised) =>
        \A k \in DOMAIN processor.frame_cache :
            now - processor.frame_cache[k].timestamp < processor.cache_ttl

(***************************************************************************)
(* Property of the life of cache entries, stated for SpecTtl.               *)
(***************************************************************************)
\* C21: the state of a frame id only moves forward absent -> fresh -> stale
\* -> evicted: once an entry has been stale, no later lookup serves that
\* entry as a hit unless the id was stored again in between.
C21_StaleIsNeverServed ==
    (last.op = "process_frame" /\ last.hit) => ~last.was_stale

(***************************************************************************)
(* Properties of selection, rectification and redaction, stated for        *)
(* SpecPipe.                                                                *)
(***************************************************************************)
Abs(n) == IF n < 0 THEN -n ELSE n

\* detection d is in the redact set with a confidence above thr
Qualifies(d, thr) ==
    /\ d.cls \in 0..(Len(get_labels) - 1)
    /\ get_labels[d.cls + 1] \in nsfw_classes
    /\ d.conf > thr

\* the detections of a result that qualify, as <<class name, confidence>>
QualifyingOf(results, thr) ==
    LET sel == SelectSeq(results, LAMBDA d : Qualifies(d, thr))
    IN  [ i \in 1..Len(sel) |-> << get_labels[sel[i].cls + 1], sel[i].conf >> ]

\* the last step is a call that ran the detector and returned a frame
ReturnedFrame ==
    \/ last.op = "process_frame" /\ last.invoked
    \/ last.op = "process_single_frame" /\ ~last.raised

\* the pixels of box b
BoxPixels(b) == { p \in (b.x1..(b.x2 - 1)) \X (b.y1..(b.y2 - 1)) : TRUE }

\* C5: for every detection in the redact set with a confidence above the
\* active threshold whose rectified box has positive area, every pixel of
\* that box has been overwritten by the blur in the frame that process_frame
\* or process_single_frame returns.
C5_QualifyingBoxIsBlurred ==
    ReturnedFrame =>
        \A i \in 1..Len(last.results) :
            LET d == last.results[i]
                b == ClampBox(ScaleBox(d, last.resize), last.frame.w, last.frame.h)
            IN  (Qualifies(d, last.threshold) /\ b.x2 > b.x1 /\ b.y2 > b.y1)
                    => BoxPixels(b) \subseteq last.frame_out.px

\* C6: the detections that become redaction regions are exactly those whose
\* class is in the redact set and whose confidence is strictly greater than
\* the call's active threshold.
C6_SelectedIffClassAndConfidence ==
    /\ (last.op = "process_frame" /\ last.invoked /\ ~last.raised) =>
          [ i \in 1..Len(last.detections) |->
              << last.detections[i].class, last.detections[i].confidence >> ]
            = QualifyingOf(last.results, last.threshold)
    /\ (last.op = "process_single_frame" /\ ~last.raised) =>
          [ i \in 1..Len(last.regions) |->
              << last.regions[i].class, last.regions[i].conf >> ]
            = QualifyingOf(last.results, last.threshold)

\* C7: every region that _extract_blur_regions produces satisfies
\* 0 <= x1 <= x2 <= original width and 0 <= y1 <= y2 <= original height,
\* whatever the detector box and the resize factor.
C7_RegionsInsideFrame ==
    last.op = "extract_blur_regions" =>
        \A i \in 1..Len(last.regions) :
            LET r == last.regions[i]
            IN  /\ 0 <= r.x1 /\ r.x1 <= r.x2 /\ r.x2 <= last.frame.w
                /\ 0 <= r.y1 /\ r.y1 <= r.y2 /\ r.y2 <= last.frame.h

\* an inverted box that reaches outside the frame on both sides was
\* rectified at a resize factor other than 1.0
C7_Witness ==
    /\ last.op = "extract_blur_regions"
    /\ last.resize # 100
    /\ Len(last.regions) = 1
    /\ last.results[1].x1 > last.results[1].x2
    /\ last.results[1].x2 < 0
    /\ ScaleBox(last.results[1], last.resize).x1 > last.frame.w
    /\ last.regions[1].x1 = last.frame.w

\* C23: for every resize factor (1.0, a configured factor below 1.0, the
\* fast-mode factor) the blur is composited onto the frame at its original
\* resolution: the frame that a call of process_frame or process_single_frame
\* which ran the pipeline returns has the dimensions (and the image) of the
\* input frame, and no pixel outside them is written.
C23_CompositedAtOriginalResolution ==
    ReturnedFrame =>
        /\ last.frame_out.w = last.frame.w
        /\ last.frame_out.h = last.frame.h
        /\ last.frame_out.img = last.frame.img
        /\ last.frame_out.px \subseteq
              (0..(last.frame.w - 1)) \X (0..(last.frame.h - 1))

\* process_frame blurred a region that reaches beyond the downscaled copy,
\* at a resize factor below 1.0
C23_Witness ==
    /\ last.op = "process_frame" /\ last.invoked /\ ~last.raised
    /\ last.resize < 100
    /\ frame_resized(last.frame, last.resize).w < last.frame.w
    /\ \E p \in last.frame_out.px :
          p[1] >= frame_resized(last.frame, last.resize).w
    /\ last.frame_out.w = last.frame.w

\* C22: the top-left corner of every region of _extract_blur_regions is
\* inside the half-open frame range, 0 <= x1 < width and 0 <= y1 < height,
\* with x2 in [x1, width] and y2 in [y1, height].
C22_TopLeftHalfOpen ==
    last.op = "extract_blur_regions" =>
        \A i \in 1..Len(last.regions) :
            LET r == last.regions[i]
            IN  /\ 0 <= r.x1 /\ r.x1 < last.frame.w
                /\ 0 <= r.y1 /\ r.y1 < last.frame.h
                /\ r.x1 <= r.x2 /\ r.x2 <= last.frame.w
                /\ r.y1 <= r.y2 /\ r.y2 <= last.frame.h

\* integer v is a nearest integer to c / scale, for the detector coordinate
\* c in half pixels and scale = rf / 100 : |v - 50 c / rf| <= 1/2
RoundsTo(v, c, rf) == 2 * Abs(v * rf - 50 * c) <= rf

\* v is a nearest integer to c / scale clamped to lo..hi
ClampedRoundsTo(v, c, rf, lo, hi) ==
    \/ RoundsTo(v, c, rf)
    \/ v = lo /\ 50 * c <= lo * rf
    \/ v = hi /\ 50 * c >= hi * rf

\* C8: rectification divides each detector coordinate by the inference scale
\* and rounds to the nearest integer pixel before clamping; the box
\* (100,100,200,200) at scale 0.5 on a 1000 x 1000 frame becomes
\* (200,200,400,400).
C8_RectifyRoundsToNearest ==
    /\ ClampBox(ScaleBox([x1 |-> 200, y1 |-> 200, x2 |-> 400, y2 |-> 400], 50),
                1000, 1000)
         = [x1 |-> 200, y1 |-> 200, x2 |-> 400, y2 |-> 400]
    /\ (last.op = "extract_blur_regions" /\ Len(last.results) = 1) =>
          \A i \in 1..Len(last.regions) :
              LET r == last.regions[i]
                  d == last.results[i]
              IN  /\ ClampedRoundsTo(r.x1, d.x1, last.resize, 0, last.frame.w)
                  /\ ClampedRoundsTo(r.y1, d.y1, last.resize, 0, last.frame.h)
                  /\ ClampedRoundsTo(r.x2, d.x2, last.resize, r.x1, last.frame.w)
                  /\ ClampedRoundsTo(r.y2, d.y2, last.resize, r.y1, last.frame.h)
    /\ (last.op = "process_single_frame" /\ ~last.raised) =>
          \A i \in 1..Len(last.regions) :
              LET r == last.regions[i]
                  d == last.results[i]
              IN  /\ RoundsTo(r.x1, d.x1, last.resize)
                  /\ RoundsTo(r.y1, d.y1, last.resize)
                  /\ RoundsTo(r.x2, d.x2, last.resize)
                  /\ RoundsTo(r.y2, d.y2, last.resize)

\* C10: when no detection of the detector's result qualifies, process_frame
\* returns a frame identical to its input and an empty detection list.
C10_NoQualifyingDetectionIsNoOp ==
    ( /\ last.op = "process_frame"
      /\ \A i \in 1..Len(last.results) : ~Qualifies(last.results[i], last.threshold) )
    => (last.frame_out = last.frame /\ last.detections = << >>)

\* detection d of the detector's output has a class of the redact set
InRedactSet(d) ==
    d.cls \in 0..(Len(get_labels) - 1) /\ get_labels[d.cls + 1] \in nsfw_classes

\* C17: on a successful uncached call the detection list that process_frame
\* returns is the sequence of selected regions in the order of the detector,
\* none dropped and none added, each entry with the class name, the
\* confidence and the rectified box of its region.
C17_DetectionsAreSelectedRegions ==
    (last.op = "process_frame" /\ last.invoked /\ ~last.raised) =>
        LET regions == extract_blur_regions(last.results, last.frame.w,
                                            last.frame.h, last.resize)
            picked == SelectSeq(last.results, InRedactSet)
            dets == last.detections
        IN  /\ Len(dets) = Len(regions)
            /\ Len(dets) = Len(picked)
            /\ \A i \in 1..Len(dets) :
                  /\ dets[i].class = regions[i].class
                  /\ dets[i].confidence = regions[i].conf
                  /\ dets[i].bbox = << regions[i].x1, regions[i].y1,
                                       regions[i].x2, regions[i].y2 >>
                  /\ dets[i].class = get_labels[picked[i].cls + 1]
                  /\ dets[i].confidence = picked[i].conf

\* the detector returned four boxes, three of them selected, and the call
\* returned them in the detector's order, which is not that of confidence
C17_Witness ==
    /\ last.op = "process_frame" /\ last.invoked /\ ~last.raised
    /\ Len(last.results) = 4
    /\ Len(last.detections) = 3
    /\ last.detections[2].confidence < last.detections[3].confidence
    /\ last.detections[1].confidence > last.detections[2].confidence
    /\ last.detections[1].bbox # last.detections[2].bbox

\* the name that a call site with label table labels gives class id c
\* ("none" when the id is past the table and the detection is skipped)
NameOf(labels, c) == IF c < Len(labels) THEN labels[c + 1] ELSE "none"

\* C18: every call site that resolves a class id gives it the same name
\* (get_labels, the processor with its fallback list, the LABELS table), so
\* _extract_blur_regions selects the same detections whichever list it uses.
C18_LabelsConsistent ==
    last.op = "extract_blur_regions" =>
          /\ \A i \in 1..Len(last.results) :
                NameOf(LABELS, last.results[i].cls)
                    = NameOf(get_labels, last.results[i].cls)
          /\ last.regions = ExtractWith(get_labels, last.results, last.frame.w,
                                        last.frame.h, last.resize)
          /\ last.regions = ExtractWith(LABELS, last.results, last.frame.w,
                                        last.frame.h, last.resize)

(***************************************************************************)
(* Property of the configuration, stated for SpecConfig.                    *)
(***************************************************************************)
\* the clamped ranges, in the units of the processor's attributes
SettingRange ==
    [ resize_factor |-> 10..100, confidence_threshold |-> 10..90,
      max_detections |-> 1..100, cache_ttl |-> 1..100 ]

\* C30: after any sequence of POST /config requests every setting is within
\* its clamped range (resize_factor 0.1..1.0, confidence_threshold 0.1..0.9,
\* max_detections 1..100, cache_ttl 0.01..1.0), and a request leaves the
\* setting of every key it omits unchanged.
C30_SettingsStayInRange ==
    /\ \A k \in ConfigKeys : processor[k] \in SettingRange[k]
    /\ last.op = "config" =>
          \A k \in ConfigKeys :
              last.data[k] = << >> => processor[k] = last.before[k]

\* a request posted a value above the range of one key and omitted another
\* key whose setting an earlier request had changed
C30_Witness ==
    /\ last.op = "config"
    /\ last.data.cache_ttl = << 200 >>
    /\ processor.cache_ttl = 100
    /\ last.data.resize_factor = << >>
    /\ last.before.resize_factor = 10
    /\ processor.resize_factor = 10

(***************************************************************************)
(* Property of the processing of video files, stated for SpecVideo.         *)
(***************************************************************************)
\* C29: process_video_file with an output path writes one frame for every
\* frame read, in read order: output frame k shows input frame k, it is the
\* raw input frame when k is not a multiple of frame_skip, and the output
\* has as many frames as the input.
C29_OneFrameOutPerFrameIn ==
    last.op = "process_video_file" =>
        /\ Len(last.written) = last.read
        /\ Len(last.written) = Len(last.frames)
        /\ \A k \in 1..Len(last.written) :
              /\ last.written[k].img = last.frames[k].frame.img
              /\ k % last.frame_skip # 0 =>
                    last.written[k] = last.frames[k].frame

(***************************************************************************)
(* Property of the GPU path, stated for SpecGpu.                            *)
(***************************************************************************)
\* the box of detection d of the target space in the pixels of a W x H
\* frame: each axis scaled by original size / target_size, then clamped
MappedBack(d, W, H) ==
    ClampBox([ x1 |-> (IntCoord(d.x1) * W) \div target_size,
               y1 |-> (IntCoord(d.y1) * H) \div target_size,
               x2 |-> (IntCoord(d.x2) * W) \div target_size,
               y2 |-> (IntCoord(d.y2) * H) \div target_size ], W, H)

\* boxes a and b differ by at most one pixel in every coordinate
NearBox(a, b) ==
    /\ Abs(a.x1 - b.x1) <= 1 /\ Abs(a.y1 - b.y1) <= 1
    /\ Abs(a.x2 - b.x2) <= 1 /\ Abs(a.y2 - b.y2) <= 1

\* C25: in the GPU path the boxes blurred on the original frame are the
\* boxes of the selected detections mapped back from the 640 x 640 detector
\* space to the frame's pixels and clamped to the frame, for every frame size.
C25_GpuBoxesMappedBack ==
    last.op = "process_frame_gpu" =>
        LET sel == SelectSeq(last.results, GpuSelects)
            want == SelectSeq([ i \in 1..Len(sel) |->
                                  MappedBack(sel[i], last.frame.w, last.frame.h) ],
                              LAMBDA b : b.x2 > b.x1 /\ b.y2 > b.y1)
        IN  /\ Len(last.blurred) = Len(want)
            /\ \A i \in 1..Len(want) : NearBox(last.blurred[i], want[i])

(***************************************************************************)
(* Property of the kernel sizes, stated for SpecKernel.                     *)
(***************************************************************************)
\* the last step sized a kernel
SizedKernel ==
    last.op \in { "_apply_ultra_fast_blur", "_apply_optimized_blur_cpu" }

\* C24: for a region of width w >= 1 and height h >= 1 the kernel size is
\* max(5, min(15, w div 4, h div 4)), plus one when that is even; it is odd
\* and within 5..15; _apply_ultra_fast_blur and _get_blur_kernel (as
\* _apply_optimized_blur_cpu calls it) give the same size for the same region.
C24_AdaptiveKernelSize ==
    SizedKernel =>
        LET m == Max(5, Min(15, Min(last.w \div 4, last.h \div 4)))
        IN  /\ last.kernel_size = IF m % 2 = 0 THEN m + 1 ELSE m
            /\ last.kernel_size % 2 = 1
            /\ 5 <= last.kernel_size /\ last.kernel_size <= 15
            /\ last.kernel_size = optimized_kernel_size(last.w, last.h)

\* _apply_ultra_fast_blur sized the kernel of a region whose quarter side is
\* even and strictly between the two caps
C24_Witness ==
    /\ last.op = "_apply_ultra_fast_blur"
    /\ Min(last.w \div 4, last.h \div 4) = 8
    /\ last.w # last.h
    /\ last.kernel_size = 9

(***************************************************************************)
(* Property of the compositors, stated for SpecBlur.                       *)
(***************************************************************************)
\* pixel p lies in the box of region r grown by pad on each side
InPadded(p, r, pad) ==
    /\ r.x1 - pad <= p[1] /\ p[1] < r.x2 + pad
    /\ r.y1 - pad <= p[2] /\ p[2] < r.y2 + pad

C15_UninitializedModelFails ==
    (last.op = "process_frame" /\ processor.model = "none") => last.propagated

\* the step is a call of process_frame without a frame id (left out, or
\* one that Python treats as false)
CallWithoutId ==
    last'.op = "process_frame" /\ last'.frame_id \in { "None", "" }

\* C12: a process_frame call without a frame id leaves the cache as it was
\* (no lookup hit, no store, no sweep of expired entries), and it goes to the
\* detector: the detector is invoked unless a step before it fails.
C12_NoIdBypassesCache ==
    [][ CallWithoutId =>
          /\ processor'.frame_cache = processor.frame_cache
          /\ ~last'.hit
          /\ ~last'.stored
          /\ (last'.invoked \/ last'.raised) ]_vars

\* a call without a frame id ran the detector and blurred its frame while
\* the cache held an entry past its time-to-live, which is still there
C12_Witness ==
    /\ last.op = "process_frame"
    /\ last.frame_id \in { "None", "" }
    /\ last.invoked /\ ~last.raised
    /\ last.frame_out.px # { }
    /\ \E f \in DOMAIN processor.frame_cache :
          now - processor.frame_cache[f].timestamp > processor.cache_ttl

(***************************************************************************)
(* Properties of concurrent requests, stated for SpecThreads.              *)
(***************************************************************************)
\* the step is thread t executing its store statement
StoreStep(t) == threads[t].pc = "store" /\ threads'[t].pc = "scan"

\* the entry that thread t writes when it stores at the current clock
EntryOf(t) ==
    [ result |-> threads[t].frame, detections |-> threads[t].detections,
      timestamp |-> now ]

\* C11: the cache maps each frame id to one entry, and under every
\* interleaving of requests that entry is the one written by the last store
\* for the id: every store puts its own entry in place of whatever the id
\* had, and an entry appears or changes only by a store for its id.
C11_LastStoreWins ==
    [][ /\ \A t \in Workers :
              StoreStep(t) =>
                  /\ threads[t].frame_id \in DOMAIN processor'.frame_cache
                  /\ processor'.frame_cache[threads[t].frame_id] = EntryOf(t)
        /\ \A f \in DOMAIN processor'.frame_cache :
              ( \/ f \notin DOMAIN processor.frame_cache
                \/ processor'.frame_cache[f] # processor.frame_cache[f] )
              => \E t \in Workers :
                    /\ StoreStep(t)
                    /\ threads[t].frame_id = f
                    /\ processor'.frame_cache[f] = EntryOf(t) ]_vars

\* two requests for the same id are past their stores at once: the entry is
\* the one of thread t, and thread u holds the frame it stored before
C11_Witness ==
    \E t, u \in Workers :
        /\ t # u
        /\ threads[t].pc = "scan"
        /\ threads[u].pc \in { "scan", "scanning" }
        /\ threads[t].frame_id = threads[u].frame_id
        /\ processor.frame_cache[threads[t].frame_id].result = threads[t].frame
        /\ threads[u].frame # threads[t].frame

\* thread t is inside a cache operation: a lookup between its membership
\* test and its freshness test, or a sweep between the start of its scan and
\* its last deletion
InCacheOperation(t) ==
    threads[t].pc \in { "fetch", "fresh", "scanning", "delete" }

\* C13: lookup, store and expiry sweep of the shared cache are mutually
\* exclusive across threads: no two threads are inside a cache operation at
\* the same time, and no thread stores while another is inside one.
C13_CacheOperationsExclusive ==
    /\ \A t, u \in Workers :
          (t # u /\ InCacheOperation(t)) =>
              /\ ~InCacheOperation(u)
              /\ threads[u].pc # "store"

\* C14: the confidence threshold in effect during a request's detection is
\* the value the request supplied, or the configured default when it
\* supplied none, whatever other requests are in flight.
C14_ThresholdIsPerRequest ==
    \A t \in Workers :
        threads[t].pc = "infer" =>
            threads[t].conf_threshold =
                IF threads[t].supplied # << >> THEN threads[t].supplied[1]
                ELSE NewProcessor.confidence_threshold

\* C26: the temporary threshold override of /process-frame is always undone:
\* whenever every request received so far has completed, the processor's
\* confidence_threshold is the value it had before the requests started.
C26_OverrideIsUndone ==
    (\A t \in Workers : threads[t].pc = "idle") =>
        processor.confidence_threshold = NewProcessor.confidence_threshold

\* C27: under every interleaving of concurrent calls that carry frame ids,
\* a call that has returned either served a fresh cache hit or ran the
\* detector and redacted its frame: it holds a redacted frame and the
\* detections of the regions blurred, never an empty list.
C27_NoCallLostToCacheRace ==
    \A t \in Workers :
        (threads[t].pc = "restore" /\ Truthy(threads[t].frame_id)) =>
            /\ threads[t].detections # << >>
            /\ threads[t].frame.px # { }

\* C19: at no time are two threads executing the detector call on the one
\* loaded model.
C19_InferenceExclusive ==
    \A t, u \in Workers :
        (threads[t].pc = "infer" /\ threads[u].pc = "infer") => t = u

(***************************************************************************)
(* Property of the start of the server, stated for SpecInit.               *)
(***************************************************************************)
\* C16: when a step of the initialization fails, the warm-up inference
\* included, initialize_model reports failure and the server halts; it
\* returns True only when the model is loaded and the warm-up inference ran.
C16_InitFailureIsReported ==
    last.op = "initialize_model" =>
        /\ (last.fail # "none" \/ last.warmup_failed) =>
              (~last.returned /\ app = "halted")
        /\ last.returned =>
              (processor.model = "loaded" /\ ~last.warmup_failed)

====
